---- MODULE Spec2Model ----
(***************************************************************************)
(* Model of the clinical-code-finder query pipeline:                       *)
(*   src/src/agent/graph.py   the LangGraph state machine and run_agent    *)
(*   src/src/agent/nodes.py   the five pipeline nodes and _search_system   *)
(*   src/src/llm/intent.py    IntentClassifier.classify, _keyword_fallback *)
(*   src/src/llm/summarizer.py  ResultSummarizer.summarize                 *)
(*   src/src/api/clinical_tables.py  ClinicalTablesAPI: search, contexts   *)
(* Python exceptions are modelled as values: an operator that can raise    *)
(* returns [exc |-> name, val |-> value] with exc = "" on normal return.   *)
(***************************************************************************)
EXTENDS Integers, Sequences, FiniteSets, TLC

VARIABLES
    pc,                   \* position of the run: a graph node, or idle/END/returned/failed
    user_query,           \* AgentState.user_query
    conversation_history, \* AgentState.conversation_history (the list run_agent appends to)
    intent,               \* AgentState.intent (None before classify_intent)
    api_calls_made,       \* AgentState.api_calls_made
    raw_results,          \* AgentState.raw_results
    filtered_results,     \* AgentState.filtered_results
    confidence_scores,    \* AgentState.confidence_scores
    summary,              \* AgentState.summary
    sec_i,                \* search_secondary_node: iterations of the for loop completed
    executed,             \* the nodes that have completed in this run, in order
    calls,                \* every _search_system call issued in this run, with what it returned
    llm_seen,             \* the completion-service outcome classify received in this run
    classify_exc,         \* the exception classify() raised into classify_intent_node ("" if none)
    error,                \* the exception that ended the run ("" if none)
    summary_seen,         \* the completion-service outcome summarize received ("none" before)
    writers,              \* per AgentState field, the nodes whose update contained it
    probe                 \* one direct call of ClinicalTablesAPI.search: arguments and outcome

vars == <<pc, user_query, conversation_history, intent, api_calls_made,
          raw_results, filtered_results, confidence_scores, summary,
          sec_i, executed, calls, llm_seen, classify_exc, error,
          summary_seen, writers, probe>>

-----------------------------------------------------------------------------
(* Bounds of the model *)

MaxRows == 2        \* rows in one response of the vocabulary search service
MaxSecLen == 4      \* length of the longest secondary_systems list the completion names
MaxAggRows == 12    \* rows in one response, in the runs that exercise aggregate_results_node
MaxProbeRows == 2   \* rows in one response of arbitrary rows, in direct calls of the adapter
MaxHistory == 2     \* entries in the history at which a caller stops calling run_agent

-----------------------------------------------------------------------------
(* Python values *)

None == <<>>
EmptyDict == [k \in {} |-> <<>>]
DictSet(d, k, v) == [j \in (DOMAIN d) \cup {k} |-> IF j = k THEN v ELSE d[j]]
DictGet(d, k, default) == IF k \in DOMAIN d THEN d[k] ELSE default
Ok(v) == [exc |-> "", val |-> v]
Raise(e) == [exc |-> e, val |-> None]
Min(a, b) == IF a < b THEN a ELSE b
Take(s, n) == SubSeq(s, 1, Min(n, Len(s)))

-----------------------------------------------------------------------------
(* agent/state.py *)

CodingSystem == {"icd10cm", "loinc", "rxnorm", "hcpcs", "ucum", "hpo"}
ICD10 == "icd10cm"
LOINC == "loinc"

\* Mutant: the lookup accepts any value.
CodingSystemLookup_NoCheck(value) == Ok(value)

\* CodingSystem(value): the enum lookup by value; ValueError for a value that
\* is not a member.
CodingSystemLookup(value) ==
    IF value \in CodingSystem THEN Ok(value) ELSE Raise("ValueError")

SearchIntent(primary, secondary, refined, concept) ==
    [primary_system |-> primary, secondary_systems |-> secondary,
     refined_query |-> refined, concept_type |-> concept]

-----------------------------------------------------------------------------
(* llm/intent.py *)

\* The queries of the model.  A Python str is opaque to TLC, so str.lower()
\* and the substring test `word in query_lower` are tabulated for them.
Queries == {"Diabetes type 2", "glucose test", "metformin 500 mg tablet",
            "wheelchair", "hypertension drug"}

lower(s) == IF s = "Diabetes type 2" THEN "diabetes type 2" ELSE s

\* The keywords of _keyword_fallback that occur in text as substrings.
KeywordsIn(text) ==
    CASE text = "diabetes type 2" -> {"diabetes"}
      [] text = "glucose test" -> {"glucose", "test"}
      [] text = "metformin 500 mg tablet" -> {"mg", "tablet"}
      [] text = "hypertension drug" -> {"hypertension", "drug"}
      [] OTHER -> {}

\* any(word in text for word in words)
AnyIn(words, text) == \E word \in words : word \in KeywordsIn(text)

DiagnosisWords == {"diabetes", "hypertension", "infection"}
LabWords == {"test", "lab", "glucose", "hemoglobin"}
DrugWords == {"mg", "tablet", "medication", "drug"}

\* Mutant: the fallback hands the lower-cased query on as refined_query.
_keyword_fallback_Lowered(query) ==
    LET query_lower == lower(query) IN
    IF AnyIn(DiagnosisWords, query_lower)
    THEN Ok(SearchIntent(ICD10, <<>>, query_lower, "diagnosis"))
    ELSE IF AnyIn(LabWords, query_lower)
    THEN Ok(SearchIntent(LOINC, <<>>, query_lower, "lab"))
    ELSE IF AnyIn(DrugWords, query_lower)
    THEN Raise("AttributeError")
    ELSE Ok(SearchIntent(ICD10, <<LOINC>>, query_lower, "unknown"))

\* IntentClassifier._keyword_fallback.  The drug branch evaluates
\* CodingSystem.RXTERMS, which is no member of the enum: AttributeError.
_keyword_fallback(query) ==
    LET query_lower == lower(query) IN
    IF AnyIn(DiagnosisWords, query_lower)
    THEN Ok(SearchIntent(ICD10, <<>>, query, "diagnosis"))
    ELSE IF AnyIn(LabWords, query_lower)
    THEN Ok(SearchIntent(LOINC, <<>>, query, "lab"))
    ELSE IF AnyIn(DrugWords, query_lower)
    THEN Raise("AttributeError")
    ELSE Ok(SearchIntent(ICD10, <<LOINC>>, query, "unknown"))

\* The context lines classify builds from the last 3 history entries that
\* carry an intent.
ContextParts(history) ==
    LET n == Len(history)
        last3 == SubSeq(history, IF n > 3 THEN n - 2 ELSE 1, n)
        keep == SelectSeq(last3, LAMBDA entry : entry.intent # None)
    IN [i \in 1..Len(keep) |->
          <<keep[i].query, keep[i].intent.concept_type, keep[i].intent.refined_query>>]

\* The outcome of the completion call and of extracting the JSON object from
\* its text:  kind "raise"    chain.invoke raised,
\*            kind "no_json"  re.search found no {...} in the content,
\*            kind "bad_json" json.loads raised on the matched text,
\*            kind "json"     data is the parsed object (a dict).
ParseCompletion(llm, query) ==
    CASE llm.kind = "raise" -> Raise("LLMError")
      [] llm.kind = "no_json" -> Raise("AttributeError")   \* self._fallback_parse does not exist
      [] llm.kind = "bad_json" -> Raise("JSONDecodeError")
      [] OTHER -> Ok(llm.data)

\* Mutant: names that are no member of the enum are skipped.
LookupAll_DropUnknown(names) ==
    Ok(SelectSeq(names, LAMBDA name : name \in CodingSystem))

\* [CodingSystem(s) for s in names]
LookupAll(names) ==
    IF \A i \in 1..Len(names) : names[i] \in CodingSystem
    THEN Ok(names) ELSE Raise("ValueError")

\* The SearchIntent(...) construction of classify from the parsed dict.
IntentFromData(data, query) ==
    IF "primary_system" \notin DOMAIN data THEN Raise("KeyError")
    ELSE LET primary == CodingSystemLookup(data["primary_system"])
             secondary == LookupAll(DictGet(data, "secondary_systems", <<>>))
         IN IF primary.exc # "" THEN primary
            ELSE IF secondary.exc # "" THEN secondary
            ELSE Ok(SearchIntent(primary.val, secondary.val,
                                 DictGet(data, "refined_query", query),
                                 DictGet(data, "concept_type", "unknown")))

\* IntentClassifier.classify: every exception of the try block is caught and
\* answered by _keyword_fallback, whose own exception propagates.
classify(query, history, llm) ==
    LET context == ContextParts(history)
        parsed == ParseCompletion(llm, query)
        built == IF parsed.exc # "" THEN parsed ELSE IntentFromData(parsed.val, query)
    IN IF built.exc = "" THEN built ELSE _keyword_fallback(query)

-----------------------------------------------------------------------------
(* api/clinical_tables.py *)

\* A Python str built by an f-string is the sequence of its pieces; text(s)
\* is the one-piece str.
text(s) == <<s>>
fstr(a, b, c) == <<a, b, c>>

upper(s) ==
    CASE s = "icd10cm" -> "ICD10CM"
      [] s = "loinc_items" -> "LOINC_ITEMS"
      [] s = "loinc" -> "LOINC"
      [] s = "rxterms" -> "RXTERMS"
      [] s = "rxnorm" -> "RXNORM"
      [] s = "hcpcs" -> "HCPCS"
      [] s = "ucum" -> "UCUM"
      [] s = "hpo" -> "HPO"
      [] OTHER -> s

\* Values a decoded JSON row can hold besides a str: null and a number.
JsonNull == "<null>"
JsonNumber == "<number>"

\* `not display`: None and the empty str are falsy (a number is 7, truthy).
Falsy(v) == v \in {"", JsonNull}

\* str.strip() of the display strings of the model.
strip(s) == IF s = "   " THEN "" ELSE s

\* `not display or display.strip() == ""`, for a display that has strip().
IsBlank(display) == Falsy(display) \/ strip(display) = ""

\* The rows loop of ClinicalTablesAPI.search: a row with fewer than two
\* fields (a row that is no list counts as one with none) is skipped, a blank
\* display is replaced by "<ENDPOINT>: <code>", and a display that is truthy
\* and has no strip() raises AttributeError.
RECURSIVE NormalizeRows(_, _)
NormalizeRows(endpoint, rows) ==
    IF rows = <<>> THEN Ok(<<>>)
    ELSE LET item == Head(rows)
             rest == NormalizeRows(endpoint, Tail(rows))
         IN IF Len(item) >= 2
            THEN IF ~Falsy(item[2]) /\ item[2] = JsonNumber
                 THEN Raise("AttributeError")
                 ELSE IF rest.exc # "" THEN rest
                 ELSE Ok(<<[code |-> item[1],
                            display |-> IF IsBlank(item[2])
                                        THEN fstr(upper(endpoint), ": ", item[1])
                                        ELSE text(item[2]),
                            system |-> endpoint]>> \o rest.val)
            ELSE rest

\* Mutant: no try/except in search.
search_NoExcept(endpoint, query, limit, resp) ==
    IF resp.status = "transport_error" THEN Raise("ClientError")
    ELSE IF resp.status = "http_error" THEN Raise("ClientResponseError")
    ELSE IF resp.shape_ok THEN NormalizeRows(endpoint, resp.rows)
    ELSE Ok(<<>>)

\* ClinicalTablesAPI.search.  resp is what the remote service does with the
\* request: status "transport_error" (session.get raises), "http_error"
\* (raise_for_status raises) or "ok" with the decoded body, of which
\* shape_ok says whether len(data) > 3 and data[3] is a list, and rows is
\* data[3].  The limit only travels to the service as maxList.
search(endpoint, query, limit, resp) ==
    LET body == IF resp.status = "transport_error" THEN Raise("ClientError")
                ELSE IF resp.status = "http_error" THEN Raise("ClientResponseError")
                ELSE IF resp.shape_ok THEN NormalizeRows(endpoint, resp.rows)
                ELSE Ok(<<>>)
    IN IF body.exc = "" THEN body ELSE Ok(<<>>)   \* except Exception: return []

-----------------------------------------------------------------------------
(* agent/nodes.py *)

PrimaryLimit == 10
SecondaryLimit == 5
MaxSecondary == 3
TopResults == 5
FullConfidenceAt == 10

endpoint_map ==
    [system \in CodingSystem |->
        CASE system = "loinc" -> "loinc_items"
          [] system = "rxnorm" -> "rxterms"
          [] OTHER -> system]

\* Mutant: no try/except in _search_system.
_search_system_NoExcept(system, query, limit, resp) ==
    IF system \notin DOMAIN endpoint_map
    THEN [exc |-> "", val |-> <<>>, opened |-> 0, closed |-> 0]
    ELSE LET entered == resp.status # "connect_error"
             r == IF entered THEN search(endpoint_map[system], query, limit, resp)
                  ELSE Raise("ClientError")
             opened == IF entered THEN 1 ELSE 0
         IN [exc |-> r.exc, val |-> r.val, opened |-> opened, closed |-> opened]

\* Mutant: search is called on a ClinicalTablesAPI() outside `async with`;
\* nothing closes the session.
_search_system_NoContext(system, query, limit, resp) ==
    IF system \notin DOMAIN endpoint_map
    THEN [exc |-> "", val |-> <<>>, opened |-> 0, closed |-> 0]
    ELSE LET entered == resp.status # "connect_error"
             r == IF entered THEN search(endpoint_map[system], query, limit, resp)
                  ELSE Raise("ClientError")
             opened == IF entered THEN 1 ELSE 0
         IN [exc |-> "", val |-> IF r.exc = "" THEN r.val ELSE <<>>,
             opened |-> opened, closed |-> 0]

\* _search_system: what it returns or raises, with the number of
\* ClinicalTablesAPI contexts it entered (opened) and left (closed).  Status
\* "connect_error" is __aenter__ raising: no context is entered, and the
\* except of _search_system answers [].  `async with` runs __aexit__, which
\* closes the session, on every exit of its block.
_search_system(system, query, limit, resp) ==
    IF system \notin DOMAIN endpoint_map
    THEN [exc |-> "", val |-> <<>>, opened |-> 0, closed |-> 0]
    ELSE LET entered == resp.status # "connect_error"
             r == IF entered THEN search(endpoint_map[system], query, limit, resp)
                  ELSE Raise("ClientError")
             opened == IF entered THEN 1 ELSE 0
         IN [exc |-> "", val |-> IF r.exc = "" THEN r.val ELSE <<>>,
             opened |-> opened, closed |-> opened]

ApiCall(system, query, results) ==
    [system |-> system, query |-> query, result_count |-> Len(results)]

\* Whether the search the remote service answered with resp failed: a
\* transport error, a non-2xx status or a body without the envelope.
ResponseFailed(resp) == resp.status # "ok" \/ ~resp.shape_ok

\* Instrumentation: the _search_system call a node awaited (its arguments,
\* whether the search failed, the list it returned and the contexts it
\* entered and left), reported beside the node's update.
Searched(node, system, query, limit, resp, r) ==
    [node |-> node, system |-> system, query |-> query, limit |-> limit,
     failed |-> ResponseFailed(resp), results |-> r.val,
     opened |-> r.opened, closed |-> r.closed]

\* Mutant: the node returns the whole state, `{**state, "intent": intent}`.
classify_intent_node_ReturnsState(state, llm) ==
    LET r == classify(state.user_query, state.conversation_history, llm)
        it == IF r.exc = "" THEN r.val
              ELSE SearchIntent(ICD10, <<>>, state.user_query, "unknown")
    IN Ok([state EXCEPT !.intent = it])

\* Mutant: no try/except around classify.
classify_intent_node_NoExcept(state, llm) ==
    LET r == classify(state.user_query, state.conversation_history, llm)
    IN IF r.exc = "" THEN Ok([intent |-> r.val]) ELSE r

\* classify_intent_node: the update it returns.  An exception out of
\* classify is answered by the ICD-10 fallback intent.
classify_intent_node(state, llm) ==
    LET r == classify(state.user_query, state.conversation_history, llm)
    IN IF r.exc = "" THEN Ok([intent |-> r.val])
       ELSE Ok([intent |-> SearchIntent(ICD10, <<>>, state.user_query, "unknown")])

\* Mutant: the primary search is not recorded in api_calls_made.
search_primary_node_NoRecord(state, resp) ==
    LET r == _search_system(state.intent.primary_system,
                            state.intent.refined_query, PrimaryLimit, resp)
        results == r.val
    IN IF r.exc # "" THEN r
       ELSE Ok([api_calls_made |-> state.api_calls_made,
                raw_results |-> DictSet(state.raw_results,
                                        state.intent.primary_system, results),
                searched |-> Searched("search_primary", state.intent.primary_system,
                                      state.intent.refined_query, PrimaryLimit, resp, r)])

\* Mutant: an empty primary result is not stored, as for a secondary one.
search_primary_node_SkipEmpty(state, resp) ==
    LET r == _search_system(state.intent.primary_system,
                            state.intent.refined_query, PrimaryLimit, resp)
        results == r.val
    IN IF r.exc # "" THEN r
       ELSE Ok([api_calls_made |-> Append(state.api_calls_made,
                                          ApiCall(state.intent.primary_system,
                                                  state.intent.refined_query, results)),
                raw_results |-> IF results # <<>>
                                THEN DictSet(state.raw_results,
                                             state.intent.primary_system, results)
                                ELSE state.raw_results,
                searched |-> Searched("search_primary", state.intent.primary_system,
                                      state.intent.refined_query, PrimaryLimit, resp, r)])

\* search_primary_node: the update it returns (api_calls_made, raw_results).
search_primary_node(state, resp) ==
    LET r == _search_system(state.intent.primary_system,
                            state.intent.refined_query, PrimaryLimit, resp)
        results == r.val
    IN IF r.exc # "" THEN r
       ELSE Ok([api_calls_made |-> Append(state.api_calls_made,
                                          ApiCall(state.intent.primary_system,
                                                  state.intent.refined_query, results)),
                raw_results |-> DictSet(state.raw_results,
                                        state.intent.primary_system, results),
                searched |-> Searched("search_primary", state.intent.primary_system,
                                      state.intent.refined_query, PrimaryLimit, resp, r)])

\* Mutant: the loop visits every secondary vocabulary.
SecondaryTargets_All(state) == state.intent.secondary_systems

\* The vocabularies the for loop of search_secondary_node visits.
SecondaryTargets(state) == Take(state.intent.secondary_systems, MaxSecondary)

\* Mutant: only a search that returned something is recorded.
search_secondary_iteration_RecordsHitsOnly(state, system, resp) ==
    LET r == _search_system(system, state.intent.refined_query, SecondaryLimit, resp)
        results == r.val
    IN IF r.exc # "" THEN r
       ELSE Ok([api_calls_made |-> IF results # <<>>
                                   THEN Append(state.api_calls_made,
                                               ApiCall(system, state.intent.refined_query,
                                                       results))
                                   ELSE state.api_calls_made,
                raw_results |-> IF results # <<>>
                                THEN DictSet(state.raw_results, system, results)
                                ELSE state.raw_results,
                searched |-> Searched("search_secondary", system,
                                      state.intent.refined_query, SecondaryLimit, resp, r)])

\* Mutant: an empty secondary result is stored too.
search_secondary_iteration_StoreEmpty(state, system, resp) ==
    LET r == _search_system(system, state.intent.refined_query, SecondaryLimit, resp)
        results == r.val
    IN IF r.exc # "" THEN r
       ELSE Ok([api_calls_made |-> Append(state.api_calls_made,
                                          ApiCall(system, state.intent.refined_query, results)),
                raw_results |-> DictSet(state.raw_results, system, results),
                searched |-> Searched("search_secondary", system,
                                      state.intent.refined_query, SecondaryLimit, resp, r)])

\* One iteration of the for loop of search_secondary_node, for `system`.
search_secondary_iteration(state, system, resp) ==
    LET r == _search_system(system, state.intent.refined_query, SecondaryLimit, resp)
        results == r.val
    IN IF r.exc # "" THEN r
       ELSE Ok([api_calls_made |-> Append(state.api_calls_made,
                                          ApiCall(system, state.intent.refined_query, results)),
                raw_results |-> IF results # <<>>
                                THEN DictSet(state.raw_results, system, results)
                                ELSE state.raw_results,
                searched |-> Searched("search_secondary", system,
                                      state.intent.refined_query, SecondaryLimit, resp, r)])

\* Mutant: the confidence score is len(results) / 10, without the cap.
aggregate_results_node_NoCap(state) ==
    LET kept == {system \in DOMAIN state.raw_results : state.raw_results[system] # <<>>}
    IN Ok([filtered_results |->
               [system \in kept |-> Take(state.raw_results[system], TopResults)],
           confidence_scores |->
               [system \in kept |-> Len(state.raw_results[system])]])

\* Mutant: the lists of raw_results are cut to the top results in place, and
\* raw_results is returned with the update.
aggregate_results_node_InPlace(state) ==
    LET kept == {system \in DOMAIN state.raw_results : state.raw_results[system] # <<>>}
        cut == [system \in DOMAIN state.raw_results |->
                   Take(state.raw_results[system], TopResults)]
    IN Ok([raw_results |-> cut,
           filtered_results |-> [system \in kept |-> cut[system]],
           confidence_scores |->
               [system \in kept |-> Min(Len(state.raw_results[system]), FullConfidenceAt)]])

\* Mutant: the policy of the unused aggregate_results_node1 for an empty
\* list, which gets a confidence entry of 0.0.
aggregate_results_node_ZeroEntries(state) ==
    LET kept == {system \in DOMAIN state.raw_results : state.raw_results[system] # <<>>}
    IN Ok([filtered_results |->
               [system \in kept |-> Take(state.raw_results[system], TopResults)],
           confidence_scores |->
               [system \in DOMAIN state.raw_results |->
                   Min(Len(state.raw_results[system]), FullConfidenceAt)]])

\* aggregate_results_node.  A confidence score min(n / 10, 1.0) is kept as
\* the number of tenths, min(n, 10).
aggregate_results_node(state) ==
    LET kept == {system \in DOMAIN state.raw_results : state.raw_results[system] # <<>>}
    IN Ok([filtered_results |->
               [system \in kept |-> Take(state.raw_results[system], TopResults)],
           confidence_scores |->
               [system \in kept |-> Min(Len(state.raw_results[system]), FullConfidenceAt)]])

\* Mutant: a failed completion is answered with a stock narrative.
summarize_results_node_Degrades(state, llm) ==
    IF llm.kind = "raise" THEN Ok([summary |-> "No summary available"])
    ELSE Ok([summary |-> llm.content])

\* summarize_results_node: the completion's text, or its exception.
summarize_results_node(state, llm) ==
    IF llm.kind = "raise" THEN Raise("LLMError") ELSE Ok([summary |-> llm.content])

-----------------------------------------------------------------------------
(* agent/graph.py *)

\* Mutant: the secondary branch is always taken.
should_search_secondary_Always(state) == "search_secondary"

should_search_secondary(state) ==
    IF state.intent.secondary_systems # <<>> THEN "search_secondary" ELSE "aggregate_results"

\* Mutant: search_secondary is wired to summarize, past aggregate_results.
NextNode_SkipAggregate(node, state) ==
    CASE node = "classify_intent" -> "search_primary"
      [] node = "search_primary" -> should_search_secondary(state)
      [] node = "search_secondary" -> "summarize"
      [] node = "aggregate_results" -> "summarize"
      [] node = "summarize" -> "END"

\* The edges of create_clinical_codes_graph: the node that follows `node`.
NextNode(node, state) ==
    CASE node = "classify_intent" -> "search_primary"
      [] node = "search_primary" -> should_search_secondary(state)
      [] node = "search_secondary" -> "aggregate_results"
      [] node = "aggregate_results" -> "summarize"
      [] node = "summarize" -> "END"

\* Mutant: the audit list and the results mapping are objects that outlive the
\* call (module-level or default-argument values) instead of fresh literals.
initial_state_Reuses(query, history) ==
    [user_query |-> query, conversation_history |-> history, intent |-> None,
     api_calls_made |-> api_calls_made, raw_results |-> raw_results,
     filtered_results |-> EmptyDict, confidence_scores |-> EmptyDict, summary |-> ""]

\* The initial_state of run_agent.
initial_state(query, history) ==
    [user_query |-> query, conversation_history |-> history, intent |-> None,
     api_calls_made |-> <<>>, raw_results |-> EmptyDict,
     filtered_results |-> EmptyDict, confidence_scores |-> EmptyDict, summary |-> ""]

\* The entry run_agent appends to the history after the graph has run.
HistoryEntry(query, result) ==
    [query |-> query, intent |-> result.intent,
     results_summary |-> <<Cardinality(DOMAIN result.filtered_results), " systems with results">>]

-----------------------------------------------------------------------------
(* The environment: what the caller, the completion service and the        *)
(* vocabulary search service can do.                                       *)

PriorEntry ==
    [query |-> "chest pain",
     intent |-> SearchIntent(ICD10, <<>>, "chest pain", "diagnosis"),
     results_summary |-> <<1, " systems with results">>]

\* What callers pass to run_agent: any query with no history, and a
\* follow-up query with the entry of one earlier run.
RunInputs ==
    {<<query, <<>>>> : query \in Queries} \cup {<<"glucose test", <<PriorEntry>>>>}

\* Vocabulary names a completion can put in its JSON: the six values of the
\* enum and one that is none of them.
Unrecognized == "snomed"
VocabularyNames == CodingSystem \cup {Unrecognized}

SecOrder == <<"loinc", "rxnorm", "hcpcs", "ucum", "hpo", "icd10cm">>

\* The secondary_systems lists of the model: the prefixes of SecOrder, the
\* diagnosis vocabulary alone, an unrecognized name alone, a list with a
\* repeated vocabulary and a list with an unrecognized name after a
\* recognized one.
SecLists ==
    {Take(SecOrder, n) : n \in 0..MaxSecLen}
        \cup {<<ICD10>>, <<Unrecognized>>, <<LOINC, LOINC>>, <<LOINC, Unrecognized>>}

Absent == "<absent>"

\* The parsed JSON object with the given members; Absent (<<Absent>> for the
\* list) leaves the key out.
JsonObject(p, s, r, c) ==
    LET keys == (IF p # Absent THEN {"primary_system"} ELSE {})
                  \cup (IF s # <<Absent>> THEN {"secondary_systems"} ELSE {})
                  \cup (IF r # Absent THEN {"refined_query"} ELSE {})
                  \cup (IF c # Absent THEN {"concept_type"} ELSE {})
    IN [k \in keys |->
          CASE k = "primary_system" -> p
            [] k = "secondary_systems" -> s
            [] k = "refined_query" -> r
            [] OTHER -> c]

Refined == "refined term"

JsonObjects ==
    {JsonObject(p, s, rc[1], rc[2]) :
        p \in VocabularyNames \cup {Absent},
        s \in SecLists \cup {<<Absent>>},
        rc \in {<<Refined, "equipment">>, <<Refined, Absent>>, <<Absent, Absent>>}}

ClassifyCompletions ==
    {[kind |-> k, data |-> EmptyDict] : k \in {"raise", "no_json", "bad_json"}}
        \cup {[kind |-> "json", data |-> d] : d \in JsonObjects}

SummaryCompletions ==
    {[kind |-> "raise", content |-> ""], [kind |-> "ok", content |-> "narrative"]}

RowCode == <<"A01", "A02", "A03", "A04", "A05", "A06", "A07", "A08", "A09", "A10",
             "A11", "A12", "A13", "A14", "A15", "A16", "A17", "A18", "A19", "A20">>

Rows(n) == [i \in 1..n |-> <<RowCode[i], "name">>]

\* What the search service does with one request of a run: the connection
\* cannot be set up, the request fails in transport or with a non-2xx status,
\* the body lacks the envelope, or the body carries no row or MaxRows rows.
Responses ==
    {[status |-> st, shape_ok |-> FALSE, rows |-> <<>>] :
        st \in {"connect_error", "transport_error", "http_error", "ok"}}
        \cup {[status |-> "ok", shape_ok |-> TRUE, rows |-> Rows(n)] : n \in {0, MaxRows}}

-----------------------------------------------------------------------------
(* The run of run_agent as a state machine *)

State ==
    [user_query |-> user_query, conversation_history |-> conversation_history,
     intent |-> intent, api_calls_made |-> api_calls_made, raw_results |-> raw_results,
     filtered_results |-> filtered_results, confidence_scores |-> confidence_scores,
     summary |-> summary]

agent_state == <<user_query, conversation_history, intent, api_calls_made, raw_results,
                 filtered_results, confidence_scores, summary>>

NoProbe == [done |-> FALSE]

Idle ==
    /\ pc = "idle"
    /\ user_query = ""
    /\ conversation_history = <<>>
    /\ intent = None
    /\ api_calls_made = <<>>
    /\ raw_results = EmptyDict
    /\ filtered_results = EmptyDict
    /\ confidence_scores = EmptyDict
    /\ summary = ""
    /\ sec_i = 0
    /\ executed = <<>>
    /\ calls = <<>>
    /\ llm_seen = [kind |-> "none", data |-> EmptyDict]
    /\ classify_exc = ""
    /\ error = ""
    /\ summary_seen = "none"
    /\ writers = [field \in DOMAIN State |-> {}]

Init == Idle /\ probe = NoProbe

\* run_agent up to app.ainvoke(initial_state): the graph starts at its entry point.
StartRunWith(inputs) ==
    /\ pc = "idle"
    /\ \E input \in inputs :
         LET s0 == initial_state(input[1], input[2]) IN
         /\ user_query' = s0.user_query
         /\ conversation_history' = s0.conversation_history
         /\ intent' = s0.intent
         /\ api_calls_made' = s0.api_calls_made
         /\ raw_results' = s0.raw_results
         /\ filtered_results' = s0.filtered_results
         /\ confidence_scores' = s0.confidence_scores
         /\ summary' = s0.summary
    /\ pc' = "classify_intent"
    /\ UNCHANGED <<sec_i, executed, calls, llm_seen, classify_exc, error, summary_seen,
                   writers, probe>>

StartRun == StartRunWith(RunInputs)

\* Mutant: run_agent appends the history entry in a `finally`.
Fail_RecordsHistory(exc) ==
    /\ pc' = "failed"
    /\ error' = exc
    /\ conversation_history' = Append(conversation_history, HistoryEntry(user_query, State))
    /\ UNCHANGED <<user_query, intent, api_calls_made, raw_results, filtered_results,
                   confidence_scores, summary, writers>>

\* An exception out of a node leaves app.ainvoke and run_agent: the node's
\* update is never applied.
Fail(exc) ==
    /\ pc' = "failed"
    /\ error' = exc
    /\ UNCHANGED <<agent_state, writers>>

\* The graph applies the update a node returned: each key of the update
\* replaces that field of the state, every other field stays.
Merge(state, update) ==
    [field \in DOMAIN state |-> IF field \in DOMAIN update THEN update[field] ELSE state[field]]

\* (A value is bound with \E over a singleton where it is used many times.)
Apply(node, update) ==
    \E merged \in {Merge(State, update)} :
    /\ user_query' = merged.user_query
    /\ conversation_history' = merged.conversation_history
    /\ intent' = merged.intent
    /\ api_calls_made' = merged.api_calls_made
    /\ raw_results' = merged.raw_results
    /\ filtered_results' = merged.filtered_results
    /\ confidence_scores' = merged.confidence_scores
    /\ summary' = merged.summary
    /\ writers' = [field \in DOMAIN writers |->
                      IF field \in DOMAIN update THEN writers[field] \cup {node}
                      ELSE writers[field]]
    /\ UNCHANGED error

ClassifyIntentWith(completions) ==
    /\ pc = "classify_intent"
    /\ \E llm \in completions :
         \E r \in {classify_intent_node(State, llm)} :
         /\ llm_seen' = llm
         /\ classify_exc' = classify(user_query, conversation_history, llm).exc
         /\ IF r.exc = ""
            THEN /\ Apply("classify_intent", r.val)
                 /\ pc' = NextNode("classify_intent", Merge(State, r.val))
                 /\ executed' = Append(executed, "classify_intent")
            ELSE /\ Fail(r.exc)
                 /\ UNCHANGED executed
    /\ UNCHANGED <<sec_i, calls, summary_seen, probe>>

ClassifyIntent == ClassifyIntentWith(ClassifyCompletions)

SearchPrimaryWith(responses) ==
    /\ pc = "search_primary"
    /\ \E resp \in responses :
         \E r \in {search_primary_node(State, resp)} :
         IF r.exc = ""
         THEN /\ Apply("search_primary", r.val)
              /\ calls' = Append(calls, r.val.searched)
              /\ pc' = NextNode("search_primary", Merge(State, r.val))
              /\ executed' = Append(executed, "search_primary")
         ELSE /\ Fail(r.exc)
              /\ UNCHANGED <<calls, executed>>
    /\ UNCHANGED <<sec_i, llm_seen, classify_exc, summary_seen, probe>>

SearchPrimary == SearchPrimaryWith(Responses)

\* One iteration of the loop of search_secondary_node; the node returns, and
\* the graph moves on, after the last one.
SearchSecondaryWith(responses) ==
    /\ pc = "search_secondary"
    /\ LET targets == SecondaryTargets(State) IN
       /\ sec_i < Len(targets)
       /\ \E resp \in responses :
            \E r \in {search_secondary_iteration(State, targets[sec_i + 1], resp)} :
            IF r.exc = ""
            THEN /\ Apply("search_secondary", r.val)
                 /\ calls' = Append(calls, r.val.searched)
                 /\ sec_i' = sec_i + 1
                 /\ IF sec_i + 1 = Len(targets)
                    THEN /\ pc' = NextNode("search_secondary", Merge(State, r.val))
                         /\ executed' = Append(executed, "search_secondary")
                    ELSE UNCHANGED <<pc, executed>>
            ELSE /\ Fail(r.exc)
                 /\ UNCHANGED <<calls, sec_i, executed>>
    /\ UNCHANGED <<llm_seen, classify_exc, summary_seen, probe>>

SearchSecondary == SearchSecondaryWith(Responses)

AggregateResults ==
    /\ pc = "aggregate_results"
    /\ \E r \in {aggregate_results_node(State)} :
       IF r.exc = ""
       THEN /\ Apply("aggregate_results", r.val)
            /\ pc' = NextNode("aggregate_results", Merge(State, r.val))
            /\ executed' = Append(executed, "aggregate_results")
       ELSE /\ Fail(r.exc)
            /\ UNCHANGED executed
    /\ UNCHANGED <<sec_i, calls, llm_seen, classify_exc, summary_seen, probe>>

\* summarize_results_node; its exception leaves the graph and run_agent.
Summarize ==
    /\ pc = "summarize"
    /\ \E llm \in SummaryCompletions :
         \E r \in {summarize_results_node(State, llm)} :
         /\ summary_seen' = llm.kind
         /\ IF r.exc = ""
            THEN /\ Apply("summarize", r.val)
                 /\ pc' = NextNode("summarize", Merge(State, r.val))
                 /\ executed' = Append(executed, "summarize")
            ELSE /\ Fail(r.exc)
                 /\ UNCHANGED executed
    /\ UNCHANGED <<sec_i, calls, llm_seen, classify_exc, probe>>

\* run_agent after app.ainvoke returned: the history entry and the return.
Return ==
    /\ pc = "END"
    /\ conversation_history' = Append(conversation_history, HistoryEntry(user_query, State))
    /\ pc' = "returned"
    /\ UNCHANGED <<user_query, intent, api_calls_made, raw_results, filtered_results,
                   confidence_scores, summary, sec_i, executed, calls, llm_seen,
                   classify_exc, error, summary_seen, writers, probe>>

Next ==
    \/ StartRun
    \/ ClassifyIntent
    \/ SearchPrimary
    \/ SearchSecondary
    \/ AggregateResults
    \/ Summarize
    \/ Return

Spec == Init /\ [][Next]_vars

\* Every external call returns or fails, and the event loop resumes the run.
FairSpec == Spec /\ WF_vars(Next)

\* Runs up to aggregate_results_node for one query and one completion
\* (ICD-10 with LOINC and RxNorm as secondary vocabularies), in which each
\* search fails or answers with any number of rows up to MaxAggRows.
AggregateInputs == {<<"chest pain", <<>>>>}
AggregateCompletions ==
    {[kind |-> "json",
      data |-> JsonObject(ICD10, <<LOINC, "rxnorm">>, "chest pain", "diagnosis")]}
AggregateResponses ==
    {[status |-> "http_error", shape_ok |-> FALSE, rows |-> <<>>]}
        \cup {[status |-> "ok", shape_ok |-> TRUE, rows |-> Rows(n)] : n \in 0..MaxAggRows}

AggregateNext ==
    \/ StartRunWith(AggregateInputs)
    \/ ClassifyIntentWith(AggregateCompletions)
    \/ SearchPrimaryWith(AggregateResponses)
    \/ SearchSecondaryWith(AggregateResponses)
    \/ AggregateResults

AggregateSpec == Init /\ [][AggregateNext]_vars

\* A caller that keeps calling run_agent with the history the previous call
\* returned (the same list when the call failed), until the history holds
\* MaxHistory entries.  The state of the finished run stays where it is
\* until run_agent builds the next initial_state.
SessionQueries == {"chest pain", "glucose test"}
SessionCompletions ==
    {[kind |-> "raise", data |-> EmptyDict],
     [kind |-> "json", data |-> JsonObject(ICD10, <<LOINC>>, Absent, "diagnosis")],
     [kind |-> "json", data |-> JsonObject(LOINC, <<>>, Refined, "lab")]}

NextRun ==
    /\ pc \in {"returned", "failed"}
    /\ Len(conversation_history) < MaxHistory
    /\ pc' = "idle"
    /\ sec_i' = 0
    /\ executed' = <<>>
    /\ calls' = <<>>
    /\ llm_seen' = [kind |-> "none", data |-> EmptyDict]
    /\ classify_exc' = ""
    /\ error' = ""
    /\ summary_seen' = "none"
    /\ writers' = [field \in DOMAIN State |-> {}]
    /\ UNCHANGED <<agent_state, probe>>

SessionNext ==
    \/ NextRun
    \/ StartRunWith({<<query, conversation_history>> : query \in SessionQueries})
    \/ ClassifyIntentWith(SessionCompletions)
    \/ SearchPrimaryWith(Responses)
    \/ SearchSecondaryWith(Responses)
    \/ AggregateResults
    \/ Summarize
    \/ Return

SessionSpec == Init /\ [][SessionNext]_vars

\* Direct calls of ClinicalTablesAPI.search, as _search_system issues them
\* (the endpoint of a vocabulary, limit 10 or 5), answered by any response:
\* a failure, a body without the envelope, up to MaxAggRows well-formed rows,
\* or up to MaxProbeRows rows of any kind (a display that is text, empty,
\* blank, null or a number; a row of one field; a row of none).
RowKinds ==
    {<<"A01", "name">>, <<"A02", "">>, <<"A03", "   ">>, <<"A04", JsonNull>>,
     <<"A05", JsonNumber>>, <<"A06">>, <<>>}

ProbeResponses ==
    {[status |-> st, shape_ok |-> FALSE, rows |-> <<>>] :
        st \in {"transport_error", "http_error", "ok"}}
        \cup {[status |-> "ok", shape_ok |-> TRUE, rows |-> Rows(n)] : n \in 0..MaxAggRows}
        \cup {[status |-> "ok", shape_ok |-> TRUE, rows |-> rows] :
                 rows \in UNION {[1..n -> RowKinds] : n \in 0..MaxProbeRows}}

ProbeCalls ==
    {[done |-> FALSE, system |-> system, query |-> "chest pain", limit |-> limit,
      resp |-> resp] :
        system \in CodingSystem, limit \in {PrimaryLimit, SecondaryLimit},
        resp \in ProbeResponses}

AdapterInit == Idle /\ probe \in ProbeCalls

AdapterSearch ==
    /\ ~probe.done
    /\ probe' = [done |-> TRUE, system |-> probe.system, query |-> probe.query,
                 limit |-> probe.limit, resp |-> probe.resp,
                 out |-> search(endpoint_map[probe.system], probe.query,
                                probe.limit, probe.resp)]
    /\ UNCHANGED <<pc, agent_state, sec_i, executed, calls, llm_seen, classify_exc,
                   error, summary_seen, writers>>

AdapterSpec == AdapterInit /\ [][AdapterSearch]_vars

-----------------------------------------------------------------------------
(* Properties *)

GraphNodes == {"classify_intent", "search_primary", "search_secondary",
               "aggregate_results", "summarize"}

Classified == intent # None
Last(seq) == seq[Len(seq)]
Ran(node) == \E i \in 1..Len(executed) : executed[i] = node
SecondaryCalls == SelectSeq(calls, LAMBDA c : c.node = "search_secondary")
PrimaryCalls == SelectSeq(calls, LAMBDA c : c.node = "search_primary")

\* The node order of a run whose intent is `it`.
StageOrder(it) ==
    IF it.secondary_systems # <<>>
    THEN <<"classify_intent", "search_primary", "search_secondary",
           "aggregate_results", "summarize">>
    ELSE <<"classify_intent", "search_primary", "aggregate_results", "summarize">>

\* C1: when search_primary has completed, the run goes to search_secondary
\* if the intent's secondary_systems is non-empty and to aggregate_results
\* otherwise; every other node has one successor (summarize: END, or the
\* failure of the run).
C1_SecondaryBranchGuard ==
    [][/\ pc = "search_primary" =>
            pc' = IF intent.secondary_systems # <<>>
                  THEN "search_secondary" ELSE "aggregate_results"
       /\ pc = "classify_intent" => pc' = "search_primary"
       /\ pc = "search_secondary" => pc' \in {"search_secondary", "aggregate_results"}
       /\ pc = "aggregate_results" => pc' = "summarize"
       /\ pc = "summarize" => pc' \in {"END", "failed"}]_vars

\* C1 witness: search_primary has completed for an intent without secondary
\* vocabularies and the run stands at aggregate_results.
C1_Witness ==
    /\ pc = "aggregate_results"
    /\ executed = <<"classify_intent", "search_primary">>
    /\ intent.secondary_systems = <<>>

\* C2: the nodes complete in the order classify_intent, search_primary,
\* (search_secondary), aggregate_results, summarize, each at most once; after
\* the last one no node runs again; and aggregate_results runs only when
\* every search of the run (1 primary, and the first 3 secondary ones when
\* the branch is taken) has returned and is in api_calls_made and
\* raw_results, so that its output is computed from all of them.
C2_StageOrder ==
    /\ ~Classified => executed = <<>>
    /\ Classified =>
         LET order == StageOrder(intent) IN
         /\ Len(executed) <= Len(order)
         /\ executed = SubSeq(order, 1, Len(executed))
         /\ pc \in GraphNodes =>
                /\ Len(executed) < Len(order)
                /\ pc = order[Len(executed) + 1]
         /\ pc \in {"END", "returned"} => executed = order
         /\ (pc = "aggregate_results" \/ Ran("aggregate_results")) =>
                /\ Len(calls) = 1 + Min(3, Len(intent.secondary_systems))
                /\ Len(api_calls_made) = Len(calls)
                /\ intent.primary_system \in DOMAIN raw_results
                /\ \A i \in 1..Len(calls) :
                      calls[i].results # <<>> => calls[i].system \in DOMAIN raw_results
         /\ Ran("aggregate_results") =>
                DOMAIN filtered_results =
                    {k \in DOMAIN raw_results : raw_results[k] # <<>>}

\* C2 witness: a run that took the secondary branch with 3 secondary searches
\* and returned.
C2_Witness ==
    /\ pc = "returned"
    /\ Len(executed) = 5
    /\ Len(calls) = 4

\* C3: every run ends, either returned with a narrative (and a result set
\* that may be empty) or failed by the exception of summarize; no run fails
\* before summarize, whatever classification and the searches did.
C3_RunOutcomes ==
    /\ [](pc = "failed" =>
            /\ error = "LLMError"
            /\ executed # <<>>
            /\ Last(executed) = "aggregate_results")
    /\ [](pc = "returned" =>
            /\ summary = "narrative"
            /\ error = ""
            /\ Last(executed) = "summarize")
    /\ (pc = "classify_intent") ~> (pc \in {"returned", "failed"})

\* C3 witness: a run whose classification raised inside classify and whose
\* searches found nothing has returned with an empty result set.
C3_Witness ==
    /\ pc = "returned"
    /\ classify_exc # ""
    /\ filtered_results = EmptyDict
    /\ summary = "narrative"

\* C4 (as claimed): classify never raises, for any query and any outcome of
\* the completion call.
C4_ClassifyNeverRaises == classify_exc = ""

\* The completion call of this run raised and the history passed in was empty.
CompletionRaised ==
    /\ pc \in GraphNodes \cup {"END", "failed"}
    /\ Classified
    /\ llm_seen.kind = "raise"
    /\ conversation_history = <<>>

\* C5 (as claimed): when the completion call raises, with an empty history,
\* classify returns an intent with primary ICD-10 and the query verbatim.
C5_FallbackAlwaysICD ==
    CompletionRaised =>
        /\ classify_exc = ""
        /\ intent.primary_system = ICD10
        /\ intent.refined_query = user_query

HasWord(query, words) == KeywordsIn(lower(query)) \cap words # {}

\* C5 (amended): when the completion call raises, with an empty history, the
\* intent has the query verbatim as refined_query; its primary is ICD-10,
\* except LOINC for a query with a lab/test keyword and no diagnosis keyword;
\* classify itself raises exactly for a query with a drug/dose keyword and
\* neither of the others, and the node then answers with ICD-10.
C5_FallbackKeepsQuery ==
    CompletionRaised =>
        /\ intent.refined_query = user_query
        /\ intent.primary_system =
              IF HasWord(user_query, LabWords) /\ ~HasWord(user_query, DiagnosisWords)
              THEN LOINC ELSE ICD10
        /\ classify_exc # "" <=>
              /\ HasWord(user_query, DrugWords)
              /\ ~HasWord(user_query, LabWords)
              /\ ~HasWord(user_query, DiagnosisWords)

\* C5 witness: the completion call raised for the lab query and classify
\* returned the LOINC intent with the query verbatim.
C5_Witness ==
    /\ CompletionRaised
    /\ user_query = "glucose test"
    /\ classify_exc = ""
    /\ intent.primary_system = LOINC
    /\ intent.refined_query = "glucose test"

\* C6: once classify_intent has run, the intent's primary_system and every
\* element of its secondary_systems are members of CodingSystem.
C6_IntentVocabulariesValid ==
    Classified =>
        /\ intent.primary_system \in CodingSystem
        /\ \A i \in 1..Len(intent.secondary_systems) :
              intent.secondary_systems[i] \in CodingSystem

\* The parsed JSON of this run names a vocabulary that is no CodingSystem value.
NamesUnrecognized ==
    /\ llm_seen.kind = "json"
    /\ \/ /\ "primary_system" \in DOMAIN llm_seen.data
          /\ llm_seen.data["primary_system"] \notin CodingSystem
       \/ /\ "secondary_systems" \in DOMAIN llm_seen.data
          /\ \E i \in 1..Len(llm_seen.data["secondary_systems"]) :
                llm_seen.data["secondary_systems"][i] \notin CodingSystem

\* C6 witness: classification failed on an unrecognized primary_system and
\* the run went on with a valid intent.
C6_Witness ==
    /\ Classified
    /\ llm_seen.kind = "json"
    /\ "primary_system" \in DOMAIN llm_seen.data
    /\ llm_seen.data["primary_system"] = Unrecognized
    /\ intent.primary_system \in CodingSystem

\* C7: when the parsed JSON names an unrecognized vocabulary, as primary or
\* among the secondaries, nothing of the JSON is used: the intent is a
\* fallback one (the query verbatim, with the vocabularies and concept type
\* of one of the fallback classifications), and no search is ever issued
\* for a vocabulary outside CodingSystem.
C7_UnrecognizedFallsBack ==
    /\ (Classified /\ NamesUnrecognized) =>
          /\ intent.refined_query = user_query
          /\ <<intent.primary_system, intent.secondary_systems, intent.concept_type>>
                \in {<<ICD10, <<>>, "diagnosis">>, <<LOINC, <<>>, "lab">>,
                     <<ICD10, <<LOINC>>, "unknown">>, <<ICD10, <<>>, "unknown">>}
    /\ \A i \in 1..Len(calls) : calls[i].system \in CodingSystem

\* C7 witness: the JSON had a recognized primary, an unrecognized name among
\* the secondaries and a refined query of its own, and dispatch has run.
C7_Witness ==
    /\ llm_seen.kind = "json"
    /\ llm_seen.data = [primary_system |-> "rxnorm",
                        secondary_systems |-> <<LOINC, Unrecognized>>,
                        refined_query |-> Refined, concept_type |-> "equipment"]
    /\ Ran("search_primary")
    /\ intent.refined_query = user_query

\* C8: search_primary issues exactly one search, for the intent's primary
\* vocabulary with its refined query and limit 10, appends exactly one
\* record carrying the number of results returned, and stores the returned
\* list under the primary vocabulary's key also when it is empty.
C8_PrimaryDispatch ==
    /\ ~Ran("search_primary") => calls = <<>> /\ api_calls_made = <<>>
    /\ Ran("search_primary") =>
          /\ Len(PrimaryCalls) = 1
          /\ calls[1].node = "search_primary"
          /\ calls[1].system = intent.primary_system
          /\ calls[1].query = intent.refined_query
          /\ calls[1].limit = 10
          /\ api_calls_made[1] = [system |-> intent.primary_system,
                                  query |-> intent.refined_query,
                                  result_count |-> Len(calls[1].results)]
          /\ sec_i = 0 =>
                /\ Len(calls) = 1
                /\ Len(api_calls_made) = 1
                /\ DOMAIN raw_results = {intent.primary_system}
                /\ raw_results[intent.primary_system] = calls[1].results

\* C8 witness: the primary search returned nothing and its empty list is
\* stored under the primary key, with a record of count 0.
C8_Witness ==
    /\ Ran("search_primary")
    /\ sec_i = 0
    /\ calls[1].results = <<>>
    /\ raw_results[intent.primary_system] = <<>>
    /\ api_calls_made[1].result_count = 0

\* C9: the secondary searches are those of the first 3 entries of
\* secondary_systems, in order, each with the refined query and limit 5;
\* when search_secondary has completed there are exactly min(3, n) of them,
\* so that a fourth or later entry is never searched.
C9_SecondaryFirstThree ==
    /\ Len(SecondaryCalls) <= 3
    /\ \A i \in 1..Len(SecondaryCalls) :
          /\ SecondaryCalls[i].system = intent.secondary_systems[i]
          /\ SecondaryCalls[i].query = intent.refined_query
          /\ SecondaryCalls[i].limit = 5
    /\ Ran("search_secondary") =>
          Len(SecondaryCalls) = Min(3, Len(intent.secondary_systems))

\* C9 witness: an intent with 4 or more secondary vocabularies has been
\* dispatched with 3 secondary searches, none of them for the fourth.
C9_Witness ==
    /\ Ran("search_secondary")
    /\ Len(intent.secondary_systems) >= 4
    /\ Len(SecondaryCalls) = 3
    /\ \A i \in 1..3 : SecondaryCalls[i].system # intent.secondary_systems[4]

Dispatched == pc \in {"aggregate_results", "summarize", "END", "returned", "failed"}

\* C10 (as claimed): after dispatch, a secondary vocabulary whose search
\* returned nothing has a record with result_count 0 and is no key of
\* raw_results.
C10_EmptySecondaryNoKey ==
    Dispatched =>
        \A i \in 1..Len(calls) :
            (calls[i].node = "search_secondary" /\ calls[i].results = <<>>) =>
                /\ api_calls_made[i].system = calls[i].system
                /\ api_calls_made[i].result_count = 0
                /\ calls[i].system \notin DOMAIN raw_results

\* C10 (amended): after dispatch, a secondary vocabulary whose search
\* returned nothing has a record with result_count 0, and it is a key of
\* raw_results only if it is also the primary vocabulary or another
\* secondary search of the same vocabulary returned results.
C10_EmptySecondaryAddsNoKey ==
    Dispatched =>
        \A i \in 1..Len(calls) :
            (calls[i].node = "search_secondary" /\ calls[i].results = <<>>) =>
                /\ api_calls_made[i].system = calls[i].system
                /\ api_calls_made[i].result_count = 0
                /\ calls[i].system \in DOMAIN raw_results =>
                      \/ calls[i].system = intent.primary_system
                      \/ \E j \in 1..Len(calls) :
                            /\ calls[j].node = "search_secondary"
                            /\ calls[j].system = calls[i].system
                            /\ calls[j].results # <<>>

\* C10 witness: a secondary vocabulary other than the primary returned
\* nothing; it is in the audit trail with count 0 and no key of raw_results.
C10_Witness ==
    /\ Dispatched
    /\ Len(calls) >= 2
    /\ calls[2].results = <<>>
    /\ calls[2].system # intent.primary_system
    /\ api_calls_made[2].result_count = 0
    /\ calls[2].system \notin DOMAIN raw_results

RunOver == pc \in {"END", "returned", "failed"}

\* C11: api_calls_made only grows, by one record per _search_system call
\* awaited (none is removed or rewritten); the record of a call carries the
\* call's vocabulary and query, and its result_count is the length of the
\* list the call returned: 0 for a failed call and for one that found nothing.
C11_AuditTrailAppendOnly ==
    /\ [](/\ Len(api_calls_made) = Len(calls)
          /\ \A i \in 1..Len(calls) :
                api_calls_made[i] = ApiCall(calls[i].system, calls[i].query, calls[i].results))
    /\ [][\/ api_calls_made' = api_calls_made /\ calls' = calls
          \/ /\ Len(calls') = Len(calls) + 1
             /\ SubSeq(calls', 1, Len(calls)) = calls
             /\ api_calls_made' = Append(api_calls_made,
                                         [system |-> Last(calls').system,
                                          query |-> Last(calls').query,
                                          result_count |-> Len(Last(calls').results)])]_vars

\* C11 witness: a finished run whose trail holds a failed call and a call
\* that found nothing, both with count 0, and a call with results.
C11_Witness ==
    /\ pc = "returned"
    /\ \E i, j, k \in 1..Len(calls) :
          /\ calls[i].failed /\ api_calls_made[i].result_count = 0
          /\ ~calls[j].failed /\ calls[j].results = <<>>
          /\ api_calls_made[j].result_count = 0
          /\ api_calls_made[k].result_count = MaxRows

\* C12: a step in which a search failed appends a call that returned the
\* empty list, leaves every entry of raw_results for another vocabulary as
\* it was (a failed primary search stores the empty list under its own
\* vocabulary, a failed secondary search stores nothing), and leaves the run
\* at search_secondary while a secondary vocabulary remains and at
\* aggregate_results otherwise; once dispatch is over every one of the
\* secondary vocabularies to visit has been searched.
C12_FailedSearchIsolated ==
    /\ [](Dispatched => Len(SecondaryCalls) = Len(SecondaryTargets(State)))
    /\ [][(Len(calls') = Len(calls) + 1 /\ Last(calls').failed) =>
            /\ Last(calls').results = <<>>
            /\ \A system \in (DOMAIN raw_results \cup DOMAIN raw_results') \ {Last(calls').system} :
                  /\ system \in DOMAIN raw_results
                  /\ system \in DOMAIN raw_results'
                  /\ raw_results'[system] = raw_results[system]
            /\ IF Last(calls').node = "search_primary"
               THEN raw_results'[Last(calls').system] = <<>>
               ELSE raw_results' = raw_results
            /\ pc' = IF Len(SecondaryCalls') < Len(SecondaryTargets(State))
                     THEN "search_secondary" ELSE "aggregate_results"]_vars

\* C12 witness: the second of three secondary searches failed; the first and
\* the third stored their results and the run is past dispatch.
C12_Witness ==
    /\ Dispatched
    /\ Len(calls) = 4
    /\ calls[2].results # <<>> /\ calls[3].failed /\ calls[4].results # <<>>
    /\ calls[3].system \notin DOMAIN raw_results
    /\ raw_results[calls[2].system] = calls[2].results
    /\ raw_results[calls[4].system] = calls[4].results

\* C13: when the completion service fails in summarize, the run has failed
\* with that exception, summarize has not completed and summary still holds
\* the empty string of the initial state.
C13_SummarizeFailurePropagates ==
    summary_seen = "raise" =>
        /\ pc = "failed"
        /\ error = "LLMError"
        /\ summary = ""
        /\ ~Ran("summarize")
        /\ writers["summary"] = {}

\* C13 witness: the completion failed after aggregate_results had completed.
C13_Witness ==
    /\ summary_seen = "raise"
    /\ Ran("aggregate_results")
    /\ pc = "failed"

\* C14: once aggregate_results has completed, every vocabulary with n > 0
\* raw results has its first min(n, 5) raw results, in order, as its filtered
\* results and min(n, 10) tenths (min(n / 10, 1.0)) as its confidence score;
\* a vocabulary with no raw result is a key of neither mapping, and neither
\* mapping has any other key.
C14_AggregatePolicy ==
    Ran("aggregate_results") =>
        /\ DOMAIN filtered_results \subseteq DOMAIN raw_results
        /\ DOMAIN confidence_scores \subseteq DOMAIN raw_results
        /\ \A system \in DOMAIN raw_results :
              LET n == Len(raw_results[system]) IN
              IF n > 0
              THEN /\ system \in DOMAIN filtered_results
                   /\ Len(filtered_results[system]) = (IF n < 5 THEN n ELSE 5)
                   /\ \A i \in 1..Len(filtered_results[system]) :
                         filtered_results[system][i] = raw_results[system][i]
                   /\ system \in DOMAIN confidence_scores
                   /\ confidence_scores[system] = (IF n < 10 THEN n ELSE 10)
              ELSE /\ system \notin DOMAIN filtered_results
                   /\ system \notin DOMAIN confidence_scores

\* C14 witness: 12 raw results gave 5 filtered entries and confidence 1.0,
\* 3 raw results gave 3 entries and confidence 0.3, and the primary
\* vocabulary, stored with no result, was left out.
C14_Witness ==
    /\ Ran("aggregate_results")
    /\ raw_results = ("icd10cm" :> <<>>) @@ ("loinc" :> calls[2].results)
                        @@ ("rxnorm" :> calls[3].results)
    /\ Len(raw_results["loinc"]) = 12 /\ Len(raw_results["rxnorm"]) = 3
    /\ Len(filtered_results["loinc"]) = 5 /\ confidence_scores["loinc"] = 10
    /\ Len(filtered_results["rxnorm"]) = 3 /\ confidence_scores["rxnorm"] = 3
    /\ DOMAIN filtered_results = {"loinc", "rxnorm"}

\* C15: the step of aggregate_results_node leaves raw_results,
\* api_calls_made and intent as they were, and running the node again on the
\* state it produced (same raw_results) gives the same filtered_results and
\* confidence_scores.
C15_AggregatePure ==
    [][pc = "aggregate_results" =>
          /\ raw_results' = raw_results
          /\ api_calls_made' = api_calls_made
          /\ intent' = intent
          /\ aggregate_results_node(State').exc = ""
          /\ aggregate_results_node(State').val.filtered_results = filtered_results'
          /\ aggregate_results_node(State').val.confidence_scores = confidence_scores']_vars

\* C15 witness: aggregate_results has completed on raw_results with a list
\* longer than the filter keeps, and a second run of the node on the
\* resulting state returns what the state holds.
C15_Witness ==
    /\ Ran("aggregate_results")
    /\ \E system \in DOMAIN raw_results : Len(raw_results[system]) > TopResults
    /\ filtered_results # EmptyDict
    /\ aggregate_results_node(State).val.filtered_results = filtered_results
    /\ aggregate_results_node(State).val.confidence_scores = confidence_scores

\* The rows of a response that are lists of at least two fields, in order.
FullRows(rows) == SelectSeq(rows, LAMBDA row : Len(row) >= 2)

\* A row lacks the row shape when it has fewer than two fields or its
\* display is neither text nor missing.
LacksRowShape(row) == Len(row) < 2 \/ row[2] = JsonNumber

C17_AtMostLimit ==
    probe.done => Len(probe.out.val) <= probe.limit

\* C18: every result of a call of search has a non-empty display label, and
\* the label of a row whose display is empty, blank or null is the name of
\* the vocabulary searched, in upper case, then ": " and the row's code.
C18_BlankDisplayLabel ==
    (probe.done /\ probe.out.val # <<>>) =>
        \A i \in 1..Len(probe.out.val) :
            LET row == FullRows(probe.resp.rows)[i]
                result == probe.out.val[i]
            IN /\ result.display \notin {<<>>, text(""), text("   ")}
               /\ row[2] \in {"", "   ", JsonNull} =>
                     result.display = fstr(upper(probe.system), ": ", row[1])

\* The fields of the update each node returns.
StageFields(node) ==
    CASE node = "classify_intent" -> {"intent"}
      [] node = "search_primary" -> {"api_calls_made", "raw_results"}
      [] node = "search_secondary" -> {"api_calls_made", "raw_results"}
      [] node = "aggregate_results" -> {"filtered_results", "confidence_scores"}
      [] node = "summarize" -> {"summary"}

\* C19 (as claimed): every field of the state is in the update of at most
\* one node.
C19_OneWriterPerField ==
    \A field \in DOMAIN writers : Cardinality(writers[field]) <= 1

\* C19 (amended): a node's update holds only that node's fields (intent for
\* classify_intent; api_calls_made and raw_results for search_primary and
\* for search_secondary; filtered_results and confidence_scores for
\* aggregate_results; summary for summarize), so every field but
\* api_calls_made and raw_results is in the update of at most one node, and
\* user_query and conversation_history are in none.
C19_StageFields ==
    /\ \A field \in DOMAIN writers :
          /\ writers[field] \subseteq {node \in GraphNodes : field \in StageFields(node)}
          /\ field \notin {"api_calls_made", "raw_results"} => Cardinality(writers[field]) <= 1
    /\ \A node \in GraphNodes :
          Ran(node) => \A field \in StageFields(node) : node \in writers[field]

\* C19 witness: a finished run in which both search nodes ran; both wrote
\* api_calls_made and raw_results, and summarize alone wrote summary.
C19_Witness ==
    /\ pc = "returned"
    /\ writers["api_calls_made"] = {"search_primary", "search_secondary"}
    /\ writers["raw_results"] = {"search_primary", "search_secondary"}
    /\ writers["summary"] = {"summarize"}
    /\ writers["user_query"] = {}

\* C20: at the end of a run (app.ainvoke returned, or an exception ended the
\* run) every ClinicalTablesAPI context a search of the run entered has
\* been left, which closes its session; and every search that reached the
\* service entered one.
C20_ContextsReleased ==
    RunOver =>
        \A i \in 1..Len(calls) :
            /\ calls[i].closed = calls[i].opened
            /\ calls[i].results # <<>> => calls[i].opened = 1

\* C20 witness: a run that ended in a summarization failure after a search
\* had failed inside its context and another had returned results.
C20_Witness ==
    /\ pc = "failed"
    /\ summary_seen = "raise"
    /\ \E i, j \in 1..Len(calls) :
          /\ calls[i].failed /\ calls[i].opened = 1 /\ calls[i].closed = 1
          /\ calls[j].results # <<>> /\ calls[j].closed = 1

\* The number of ClinicalTablesAPI contexts the searches of the run entered.
ContextsEntered == Cardinality({i \in 1..Len(calls) : calls[i].opened = 1})

\* C21: the searches of a run go through one connection context: once
\* dispatch is over the run has entered exactly one context, or none when no
\* context could be set up.
C21_OneContextPerRun ==
    Dispatched =>
        ContextsEntered = (IF \E i \in 1..Len(calls) : calls[i].opened = 1 THEN 1 ELSE 0)

\* The completion of this run gave classify no parsed JSON object: the call
\* raised, its text held no JSON object, or the object did not parse.
NoParsedJson ==
    /\ Classified
    /\ llm_seen.kind \in {"raise", "no_json", "bad_json"}

\* C22: when the completion gave no parsed JSON object, classify returned
\* (it did not raise) and the intent is the keyword matcher's, with the raw
\* query as refined_query: ICD-10 for a diagnosis keyword, else LOINC for a
\* lab/test keyword, else RxNorm for a drug/dose keyword, else ICD-10 with
\* LOINC as the only secondary vocabulary.
C22_KeywordMatcher ==
    NoParsedJson =>
        /\ classify_exc = ""
        /\ intent.refined_query = user_query
        /\ intent.primary_system =
              IF HasWord(user_query, DiagnosisWords) THEN ICD10
              ELSE IF HasWord(user_query, LabWords) THEN LOINC
              ELSE IF HasWord(user_query, DrugWords) THEN "rxnorm"
              ELSE ICD10
        /\ intent.secondary_systems =
              IF \/ HasWord(user_query, DiagnosisWords)
                 \/ HasWord(user_query, LabWords)
                 \/ HasWord(user_query, DrugWords)
              THEN <<>> ELSE <<LOINC>>

\* C23: once dispatch is over, raw_results holds under the primary
\* vocabulary exactly the list the primary search returned.
C23_PrimaryResultsKept ==
    (Dispatched /\ Len(calls) >= 1) =>
        /\ intent.primary_system \in DOMAIN raw_results
        /\ raw_results[intent.primary_system] = calls[1].results

\* C24: every result stored in raw_results has the key it is stored under
\* as its system field.
C24_SystemEqualsKey ==
    \A key \in DOMAIN raw_results :
        \A i \in 1..Len(raw_results[key]) : raw_results[key][i].system = key

\* C25: once aggregate_results has completed, filtered_results and
\* confidence_scores have the same keys, all of them keys of raw_results;
\* every filtered list has 1 to 5 entries and every confidence score is
\* above 0 and at most 1.0 (10 tenths).
C25_AggregateShape ==
    Ran("aggregate_results") =>
        /\ DOMAIN filtered_results = DOMAIN confidence_scores
        /\ DOMAIN filtered_results \subseteq DOMAIN raw_results
        /\ \A key \in DOMAIN filtered_results :
              /\ Len(filtered_results[key]) >= 1
              /\ Len(filtered_results[key]) <= 5
        /\ \A key \in DOMAIN confidence_scores :
              /\ confidence_scores[key] > 0
              /\ confidence_scores[key] <= 10

\* C25 witness: aggregate_results has completed on raw_results with an empty
\* list, a list of one and a list of more than five.
C25_Witness ==
    /\ Ran("aggregate_results")
    /\ DOMAIN raw_results = {"icd10cm", "loinc", "rxnorm"}
    /\ raw_results["icd10cm"] = <<>>
    /\ Len(raw_results["loinc"]) = 1 /\ Len(raw_results["rxnorm"]) > 5
    /\ DOMAIN filtered_results = {"loinc", "rxnorm"}
    /\ DOMAIN confidence_scores = {"loinc", "rxnorm"}
    /\ Len(filtered_results["rxnorm"]) = 5 /\ confidence_scores["loinc"] = 1

\* C26: when the graph has reached END, api_calls_made holds
\* 1 + min(3, len(secondary_systems)) records: the first for the primary
\* vocabulary, the next ones for the first secondary vocabularies in the
\* order of intent.secondary_systems, all with the intent's refined query.
C26_AuditTrailAtDone ==
    pc \in {"END", "returned"} =>
        LET n == IF Len(intent.secondary_systems) < 3
                 THEN Len(intent.secondary_systems) ELSE 3
        IN /\ Len(api_calls_made) = 1 + n
           /\ api_calls_made[1].system = intent.primary_system
           /\ \A i \in 1..n : api_calls_made[i + 1].system = intent.secondary_systems[i]
           /\ \A i \in 1..(1 + n) : api_calls_made[i].query = intent.refined_query

\* C26 witness: a finished run whose intent names four secondary
\* vocabularies; the trail has four records, in the intent's order.
C26_Witness ==
    /\ pc = "returned"
    /\ Len(intent.secondary_systems) = 4
    /\ Len(api_calls_made) = 4
    /\ <<api_calls_made[2].system, api_calls_made[3].system, api_calls_made[4].system>>
          = SubSeq(intent.secondary_systems, 1, 3)

\* C27: run_agent starts every run, whatever an earlier run left, with an
\* empty api_calls_made and an empty raw_results; at the end of a run
\* api_calls_made holds exactly the records of the searches of that run and
\* every entry of raw_results is the list one of them returned.
C27_RunsStartEmpty ==
    /\ [][pc = "idle" => (api_calls_made' = <<>> /\ raw_results' = EmptyDict)]_vars
    /\ [](RunOver =>
            /\ Len(api_calls_made) = Len(calls)
            /\ \A i \in 1..Len(calls) :
                  api_calls_made[i] = ApiCall(calls[i].system, calls[i].query, calls[i].results)
            /\ \A key \in DOMAIN raw_results :
                  \E i \in 1..Len(calls) :
                      calls[i].system = key /\ calls[i].results = raw_results[key])

\* C27 witness: a second run has returned after an earlier run that stored
\* results for two vocabularies; its own single search found nothing, and
\* its state holds that one record and that one empty list.
C27_Witness ==
    /\ pc = "returned"
    /\ Len(conversation_history) = 2
    /\ conversation_history[1].results_summary[1] = 2
    /\ Len(calls) = 1
    /\ api_calls_made = <<ApiCall(calls[1].system, calls[1].query, <<>>)>>
    /\ raw_results = (calls[1].system :> <<>>)

\* C28: the history changes only when app.ainvoke has returned: run_agent
\* then appends one entry with the query, the intent and the result summary
\* of the run; no step of a node, and no failure of the run, changes it, and
\* no node returns conversation_history.
C28_HistoryAppendedOnce ==
    /\ [][IF pc = "END"
          THEN conversation_history' =
                  Append(conversation_history,
                         [query |-> user_query, intent |-> intent,
                          results_summary |-> <<Cardinality(DOMAIN filtered_results),
                                                " systems with results">>])
          ELSE conversation_history' = conversation_history]_vars
    /\ [](writers["conversation_history"] = {})

\* C28 witness: a run failed in summarize and left the history of one entry
\* as it was; before it a run reached END and appended that entry.
C28_Witness ==
    /\ pc = "failed"
    /\ summary_seen = "raise"
    /\ Len(conversation_history) = 1
    /\ conversation_history[1].query = "glucose test"
    /\ user_query = "chest pain"

====
